---------------------------- MODULE Spec2Model ----------------------------
(***************************************************************************)
(* A state-machine model of the game list widget of DolphinQt2             *)
(* (Source/Core/DolphinQt2/GameList/GameList.cpp): the stacked             *)
(* table / icon-list / empty views, the per-view selection, the context    *)
(* menu and the handlers behind its entries.                               *)
(*                                                                         *)
(* A game reference is a path; paths are the numbers 1..NumPaths and the   *)
(* empty QString is NoGame.  What GameFile(path) reads from the file       *)
(* (platform, blob type) is the file's content on disk and is fixed for    *)
(* a run; it is chosen by the initial condition.                           *)
(***************************************************************************)
EXTENDS Naturals, Integers, Sequences, FiniteSets, TLC

\* ------------------------------------------------------------------ bounds
\* Number of distinct game files that discovery can report.
NumPaths == 2
\* Cap on File::Delete attempts of one DeleteFile invocation.
MaxAttempts == 2
\* Cap on the progress callbacks the codec makes during one call.
MaxCallbacks == 2

Paths == 1..NumPaths
\* QStringLiteral("") - the empty game reference.
NoGame == 0

\* DiscIO::Platform values the menu distinguishes.
Platforms == {"GAMECUBE_DISC", "WII_DISC", "WII_WAD", "ELF_DOL"}
\* DiscIO::BlobType: the two values the code names, and one of the others
\* (a WBFS image), which takes neither branch of lines 149-152.
BlobTypes == {"PLAIN", "GCZ", "WBFS"}

\* Progress values handed to QProgressDialog::setValue (percent * 100).
ProgressMinimum == 0
ProgressMaximum == 100
Percents == {0, 50, 100}

VARIABLES
  platformOf,      \* GameFile(path).GetPlatformID(), per path
  blobOf,          \* GameFile(path).GetBlobType(), per path
  installed,       \* paths whose title is installed (GameFile::IsInstalled)
  running,         \* Core::IsRunning()
  m_model,         \* rows of the catalog (GameListModel): a sequence of paths
  m_prefer_table,  \* GameList::m_prefer_table
  current,         \* currentWidget(): "table", "list" or "empty"
  tableSel,        \* selected proxy row of m_table (0: no selection)
  listSel,         \* selected proxy row of m_list  (0: no selection)
  pc,              \* where the widget's event handling stands
  menu,            \* the QMenu built last by ShowContextMenu
  frame,           \* locals and observed effects of the running handler
  m_strDefaultISO  \* SConfig::GetInstance().m_strDefaultISO

vars == <<platformOf, blobOf, installed, running, m_model, m_prefer_table,
          current, tableSel, listSel, pc, menu, frame, m_strDefaultISO>>

files == <<platformOf, blobOf, installed>>
views == <<m_model, m_prefer_table, current, tableSel, listSel>>

\* ------------------------------------------------------------ sequences
Range(s) == {s[i] : i \in DOMAIN s}

RemoveAt(s, k) == [i \in 1..(Len(s) - 1) |-> IF i < k THEN s[i] ELSE s[i + 1]]

IndexOf(s, x) == IF x \in Range(s) THEN CHOOSE i \in DOMAIN s : s[i] = x ELSE 0

\* ------------------------------------------------ catalog and its proxies
\* GameListModel::rowCount.
rowCount(model) == Len(model)

\* GameListModel::GetPath(row), rows counted from 1 here.
GetPath(model, row) == model[row]

\* m_table_proxy: a QSortFilterProxyModel with sorting enabled.  Proxy row i
\* shows source row TableProxy(model)[i]; the sort key of a path is the path.
TableProxy(model) ==
  LET n == Len(model)
  IN  [i \in 1..n |->
         CHOOSE k \in 1..n : Cardinality({j \in 1..n : model[j] < model[k]}) = i - 1]

\* m_list_proxy: shows the source rows in source order.
ListProxy(model) == [i \in 1..Len(model) |-> i]

\* QSortFilterProxyModel::mapToSource for a proxy row.
mapToSource(proxy, row) == proxy[row]

\* The proxy a view shows.
ProxyOf(view, model) == IF view = "table" THEN TableProxy(model) ELSE ListProxy(model)

\* The path shown at a selected proxy row (NoGame for no selection).
ItemAt(view, model, sel) ==
  IF sel = 0 THEN NoGame ELSE GetPath(model, mapToSource(ProxyOf(view, model), sel))

\* A view's selection model follows its selected item when rows are inserted
\* or removed, and drops the selection when the item's row is removed.
Reselect(view, oldModel, newModel, sel) ==
  LET item == ItemAt(view, oldModel, sel)
  IN  IF item = NoGame \/ item \notin Range(newModel)
      THEN 0
      ELSE CHOOSE r \in 1..Len(newModel) : ItemAt(view, newModel, r) = item

\* --------------------------------------------------------- view selection
\* GameList::ConsiderViewChange: the widget made current.
ConsiderViewChange(rows, prefer_table) ==
  IF rows > 0
  THEN IF prefer_table THEN "table" ELSE "list"
  ELSE "empty"

GetSelectedGameAlwaysTable(cur, model, tsel, lsel) ==
  IF tsel # 0 THEN GetPath(model, mapToSource(TableProxy(model), tsel)) ELSE NoGame

GetSelectedGameAlwaysList(cur, model, tsel, lsel) ==
  IF lsel # 0 THEN GetPath(model, mapToSource(ListProxy(model), lsel)) ELSE NoGame

\* GameList::GetSelectedGame.
GetSelectedGame(cur, model, tsel, lsel) ==
  LET view  == IF cur = "table" THEN "table" ELSE "list"
      proxy == IF cur = "table" THEN TableProxy(model) ELSE ListProxy(model)
      sel   == IF cur = "table" THEN tsel ELSE lsel
  IN  IF sel # 0 THEN GetPath(model, mapToSource(proxy, sel)) ELSE NoGame

SelectedGame == GetSelectedGame(current, m_model, tableSel, listSel)

\* ----------------------------------------------------------- context menu
Entry(label, slot) == [label |-> label, slot |-> slot, enabled |-> TRUE]
Separator == [label |-> "separator", slot |-> "", enabled |-> TRUE]
WadAction(label, slot, enabled) == [label |-> label, slot |-> slot, enabled |-> enabled]

IsDiscImage(platform) == platform = "GAMECUBE_DISC" \/ platform = "WII_DISC"

DiscGroupCompressAnyUncompressed(platform, blob_type) ==
  IF IsDiscImage(platform)
  THEN <<Entry("Default ISO", "SetDefaultISO")>>
       \o (IF blob_type = "GCZ"
           THEN <<Entry("Decompress ISO", "DecompressISO")>>
           ELSE <<Entry("Compress ISO", "CompressISO")>>)
       \o <<Separator>>
  ELSE <<>>

\* ShowContextMenu, lines 144-155: the entries of a disc image.
DiscGroup(platform, blob_type) ==
  IF IsDiscImage(platform)
  THEN <<Entry("Default ISO", "SetDefaultISO")>>
       \o (IF blob_type = "GCZ"
           THEN <<Entry("Decompress ISO", "DecompressISO")>>
           ELSE IF blob_type = "PLAIN"
                THEN <<Entry("Compress ISO", "CompressISO")>>
                ELSE <<>>)
       \o <<Separator>>
  ELSE <<>>

\* ShowContextMenu, lines 156-178: the entries of a WAD.  Both actions start
\* out enabled iff emulation is not running (line 167).
WadGroup(platform, isRunning) ==
  IF platform = "WII_WAD"
  THEN <<WadAction("Install to the NAND", "InstallWAD", ~isRunning),
         WadAction("Uninstall from the NAND", "UninstallWAD", ~isRunning),
         Separator>>
  ELSE <<>>

SaveGroupAnyDisc(platform) ==
  IF platform = "WII_WAD" \/ IsDiscImage(platform)
  THEN <<Entry("Open Wii save folder", "OpenSaveFolder"),
         Entry("Export Wii save (Experimental)", "ExportWiiSave"),
         Separator>>
  ELSE <<>>

\* ShowContextMenu, lines 180-185: the save entries.
SaveGroup(platform) ==
  IF platform = "WII_WAD" \/ platform = "WII_DISC"
  THEN <<Entry("Open Wii save folder", "OpenSaveFolder"),
         Entry("Export Wii save (Experimental)", "ExportWiiSave"),
         Separator>>
  ELSE <<>>

BuildMenuSaveFirst(platform, blob_type, isRunning) ==
  <<Entry("Properties", "OpenProperties"), Entry("Wiki", "OpenWiki"), Separator>>
  \o SaveGroup(platform)
  \o DiscGroup(platform, blob_type)
  \o WadGroup(platform, isRunning)
  \o <<Entry("Open Containing Folder", "OpenContainingFolder"),
       Entry("Remove File", "DeleteFile")>>

\* ShowContextMenu, lines 138-188: the entries of the menu of a game.
BuildMenu(platform, blob_type, isRunning) ==
  <<Entry("Properties", "OpenProperties"), Entry("Wiki", "OpenWiki"), Separator>>
  \o DiscGroup(platform, blob_type)
  \o WadGroup(platform, isRunning)
  \o SaveGroup(platform)
  \o <<Entry("Open Containing Folder", "OpenContainingFolder"),
       Entry("Remove File", "DeleteFile")>>

\* No menu has been built yet.
NoMenu == [game |-> NoGame, entries |-> <<>>]

Labels(m) == {m.entries[i].label : i \in DOMAIN m.entries}

HasEntry(m, label) == label \in Labels(m)

EntryEnabled(m, label) ==
  \E i \in DOMAIN m.entries : m.entries[i].label = label /\ m.entries[i].enabled

\* The menu is up and offers an enabled entry connected to this slot.
MenuOffers(slot) ==
  /\ pc = "menu"
  /\ \E i \in DOMAIN menu.entries : menu.entries[i].slot = slot /\ menu.entries[i].enabled

SetEnabled(entries, label, on) ==
  [i \in DOMAIN entries |->
     IF entries[i].label = label THEN [entries[i] EXCEPT !.enabled = on] ELSE entries[i]]

\* GameFile(game).IsInstalled().
IsInstalled(game) == game \in installed

OnStartedKeepsInstall(entries) ==
  SetEnabled(entries, "Uninstall from the NAND", FALSE)

\* The lambdas connected to EmulationStarted (line 166), one per WAD action.
OnEmulationStarted(entries) ==
  SetEnabled(SetEnabled(entries, "Install to the NAND", FALSE),
             "Uninstall from the NAND", FALSE)

\* The lambdas connected to EmulationStopped (lines 171-175); game is the
\* path the menu captured.
OnEmulationStopped(entries, game) ==
  SetEnabled(SetEnabled(entries, "Install to the NAND", TRUE),
             "Uninstall from the NAND", IsInstalled(game))

\* ------------------------------------------------------- handler's frame
\* progress_dialog before line 251 constructs it.  value is the bar's value,
\* ProgressMinimum - 1 while no value is set.
NoDialog == [exists |-> FALSE, shown |-> FALSE, canceled |-> FALSE, value |-> -1]

\* The locals of the handler that runs, and what it has shown and called.
NoFrame ==
  [handler  |-> "none",
   game     |-> NoGame,      \* original_path (CompressISO), game (DeleteFile)
   platform |-> "none",      \* file.GetPlatformID()
   blob     |-> "none",      \* file.GetBlobType()
   answer   |-> "none",      \* the last answer a question dialog returned
   dst_path |-> "none",      \* "empty" or "chosen"
   progress_dialog |-> NoDialog,
   callbacks |-> <<>>,       \* the codec's calls of CompressCB, with results
   good     |-> "unset",     \* good / deletion_successful
   attempts |-> 0,           \* File::Delete calls made
   retries  |-> 0,           \* Retry answers given
   dialogs  |-> <<>>,        \* dialogs shown, in order
   calls    |-> <<>>]        \* external calls made, in order

Dialog(kind, modal) == [kind |-> kind, modal |-> modal]

\* ------------------------------------------------------------------ Init
\* The files discovery can find.  Path 1 is any kind of file; the others
\* are fixed so that the library holds a compressed Wii disc and a WAD too.
OtherPlatform(p) == IF p % 2 = 0 THEN "WII_DISC" ELSE "WII_WAD"
OtherBlob(p) == IF p % 2 = 0 THEN "GCZ" ELSE "PLAIN"

FilesInit ==
  /\ \E pl \in Platforms, bt \in BlobTypes :
       /\ platformOf = [p \in Paths |-> IF p = 1 THEN pl ELSE OtherPlatform(p)]
       /\ blobOf = [p \in Paths |-> IF p = 1 THEN bt ELSE OtherBlob(p)]
  /\ installed \in SUBSET {p \in Paths : platformOf[p] = "WII_WAD"}

\* GameList::GameList: the catalog is empty until discovery reports games,
\* the preference comes from the settings, ConsiderViewChange runs once.
Init ==
  /\ FilesInit
  /\ running = FALSE
  /\ m_model = <<>>
  /\ m_prefer_table \in BOOLEAN
  /\ current = ConsiderViewChange(rowCount(m_model), m_prefer_table)
  /\ tableSel = 0
  /\ listSel = 0
  /\ pc = "idle"
  /\ menu = NoMenu
  /\ frame = NoFrame
  /\ m_strDefaultISO = NoGame

\* ------------------------------------------------- catalog notifications
\* Events from outside are delivered while no handler runs: the widget is
\* idle or its context menu is up.
Receptive == pc \in {"idle", "menu"}

\* rowsInserted -> ConsiderViewChange (line 51): discovery adds a game.
RowsInserted(p) ==
  /\ Receptive
  /\ p \notin Range(m_model)
  /\ m_model' = Append(m_model, p)
  /\ tableSel' = Reselect("table", m_model, m_model', tableSel)
  /\ listSel' = Reselect("list", m_model, m_model', listSel)
  /\ current' = ConsiderViewChange(rowCount(m_model'), m_prefer_table)
  /\ UNCHANGED <<files, running, m_prefer_table, pc, menu, frame, m_strDefaultISO>>

\* The catalog without the row of path p, the selections following their
\* items, and ConsiderViewChange run on rowsRemoved (line 52).
RemoveRow(p) ==
  /\ m_model' = RemoveAt(m_model, IndexOf(m_model, p))
  /\ tableSel' = Reselect("table", m_model, m_model', tableSel)
  /\ listSel' = Reselect("list", m_model, m_model', listSel)
  /\ current' = ConsiderViewChange(rowCount(m_model'), m_prefer_table)

\* rowsRemoved -> ConsiderViewChange (line 52): discovery drops a game.
RowsRemoved(p) ==
  /\ Receptive
  /\ p \in Range(m_model)
  /\ RemoveRow(p)
  /\ UNCHANGED <<files, running, m_prefer_table, pc, menu, frame, m_strDefaultISO>>

\* The user selects a row of the visible view, or clears its selection.
SelectRow(row) ==
  /\ Receptive
  /\ row \in 0..Len(m_model)
  /\ \/ current = "table" /\ tableSel' = row /\ UNCHANGED listSel
     \/ current = "list" /\ listSel' = row /\ UNCHANGED tableSel
  /\ UNCHANGED <<files, running, m_model, m_prefer_table, current, pc, menu, frame, m_strDefaultISO>>

SetPreferredViewNoReevaluation(table) ==
  /\ pc = "idle"
  /\ m_prefer_table' = table
  /\ UNCHANGED current
  /\ UNCHANGED <<files, running, m_model, tableSel, listSel, pc, menu, frame, m_strDefaultISO>>

\* GameList::SetPreferredView.
SetPreferredView(table) ==
  /\ pc = "idle"
  /\ m_prefer_table' = table
  /\ current' = ConsiderViewChange(rowCount(m_model), m_prefer_table')
  /\ UNCHANGED <<files, running, m_model, tableSel, listSel, pc, menu, frame, m_strDefaultISO>>

\* ------------------------------------------------------ emulation signals
\* GameList::EmulationStarted reaches the actions of the menu.
EmulationStarted ==
  /\ Receptive
  /\ ~running
  /\ running' = TRUE
  /\ menu' = [menu EXCEPT !.entries = OnEmulationStarted(menu.entries)]
  /\ UNCHANGED <<files, views, pc, frame, m_strDefaultISO>>

\* GameList::EmulationStopped reaches the actions of the menu.
EmulationStopped ==
  /\ Receptive
  /\ running
  /\ running' = FALSE
  /\ menu' = [menu EXCEPT !.entries = OnEmulationStopped(menu.entries, menu.game)]
  /\ UNCHANGED <<files, views, pc, frame, m_strDefaultISO>>

\* ------------------------------------------------------- ShowContextMenu
\* GameList::ShowContextMenu, requested on the table or the list view.
ShowContextMenu ==
  /\ pc = "idle"
  /\ current \in {"table", "list"}
  /\ LET game == SelectedGame
     IN  IF game = NoGame
         THEN UNCHANGED <<pc, menu>>
         ELSE /\ menu' = [game |-> game,
                          entries |-> BuildMenu(platformOf[game], blobOf[game], running)]
              /\ pc' = "menu"
  /\ UNCHANGED <<files, running, views, frame, m_strDefaultISO>>

\* menu->exec returns without an entry chosen, or with one whose slot this
\* file does not define (DecompressISO).
MenuDismissed ==
  /\ pc = "menu"
  /\ pc' = "idle"
  /\ UNCHANGED <<files, running, views, menu, frame, m_strDefaultISO>>

\* ------------------------------------------------------- progress relay
\* QProgressDialog::reset: hides the dialog, forgets the value and clears
\* the cancellation flag.
Reset(d) == [d EXCEPT !.shown = FALSE, !.canceled = FALSE, !.value = ProgressMinimum - 1]

\* QProgressDialog::cancel: a reset that leaves the cancellation flag set.
Cancel(d) == [Reset(d) EXCEPT !.canceled = TRUE]

\* QProgressDialog::setValue(v) on the window-modal dialog.  While the dialog
\* is shown the call processes pending events, among them a click on Abort
\* (click); while it is not, a value above the minimum may show it (show:
\* the estimated duration exceeds minimumDuration).  With autoReset (the
\* default, never changed by the code) reaching the maximum resets the dialog.
SetValue(d, v, click, show) ==
  IF d.value = v
  THEN d
  ELSE LET d1 == [d EXCEPT !.value = v]
           d2 == IF d1.shown
                 THEN (IF click THEN Cancel(d1) ELSE d1)
                 ELSE IF v # ProgressMinimum /\ show
                      THEN [d1 EXCEPT !.shown = TRUE]
                      ELSE d1
       IN  IF v = ProgressMaximum THEN Reset(d2) ELSE d2

\* CompressCB (lines 439-447): the value returned to the codec, and the
\* progress dialog afterwards.  v is percent * 100.
CompressCB(ptrIsNull, d, v, click, show) ==
  IF ptrIsNull
  THEN [ret |-> FALSE, dialog |-> d]
  ELSE LET after == SetValue(d, v, click, show)
       IN  [ret |-> ~after.canceled, dialog |-> after]

\* -------------------------------------------------------------- handlers
\* What GameFile(game) reads: the file's content, and for the empty path
\* (no file) whatever the object happens to hold.
FileReads(game, platform, blob_type) ==
  IF game = NoGame
  THEN platform \in Platforms /\ blob_type \in BlobTypes
  ELSE platform = platformOf[game] /\ blob_type = blobOf[game]

Shows(f, kind, modal) == [f EXCEPT !.dialogs = Append(@, Dialog(kind, modal))]

\* Block size handed to CompressFileToBlob.
BlockSize == 16384

NeedsWarningAnyWii(compressed, platform) == platform = "WII_DISC"

\* CompressISO, line 224: the condition of the lossy-operation question.
NeedsWarning(compressed, platform) == ~compressed /\ platform = "WII_DISC"

\* CompressISO, line 222.
IsCompressed(blob_type) == blob_type = "GCZ"

\* CompressISO, lines 219-233: up to the first dialog.
CompressISO_Start ==
  /\ MenuOffers("CompressISO")
  /\ \E platform \in Platforms, blob_type \in BlobTypes :
       /\ FileReads(SelectedGame, platform, blob_type)
       /\ LET f == [NoFrame EXCEPT !.handler = "CompressISO", !.game = SelectedGame,
                                   !.platform = platform, !.blob = blob_type]
          IN  IF NeedsWarning(IsCompressed(blob_type), platform)
              THEN /\ frame' = Shows(f, "wii_warning", TRUE)
                   /\ pc' = "ciso_warning"
              ELSE /\ frame' = Shows(f, "save_file", TRUE)
                   /\ pc' = "ciso_dst"
  /\ UNCHANGED <<files, running, views, menu, m_strDefaultISO>>

\* CompressISO, lines 234-246: the answer to the question.
CompressISO_Warning(answer) ==
  /\ pc = "ciso_warning"
  /\ IF answer = "No"
     THEN /\ frame' = [frame EXCEPT !.answer = answer]
          /\ pc' = "done"
     ELSE /\ frame' = Shows([frame EXCEPT !.answer = answer], "save_file", TRUE)
          /\ pc' = "ciso_dst"
  /\ UNCHANGED <<files, running, views, menu, m_strDefaultISO>>

CodecCallSubTypeZero(f) ==
  IF IsCompressed(f.blob)
  THEN [fn |-> "DecompressBlobToFile", src |-> f.game, sub_type |-> 0, block_size |-> 0]
  ELSE [fn |-> "CompressFileToBlob", src |-> f.game, sub_type |-> 0,
        block_size |-> BlockSize]

\* The one codec call of CompressISO, lines 257-267.
CodecCall(f) ==
  IF IsCompressed(f.blob)
  THEN [fn |-> "DecompressBlobToFile", src |-> f.game, sub_type |-> 0, block_size |-> 0]
  ELSE [fn |-> "CompressFileToBlob", src |-> f.game,
        sub_type |-> IF f.platform = "WII_DISC" THEN 1 ELSE 0,
        block_size |-> BlockSize]

\* CompressISO, lines 248-267: the destination, the progress dialog, and the
\* codec entered.
CompressISO_Destination(dst_path) ==
  /\ pc = "ciso_dst"
  /\ IF dst_path = "empty"
     THEN /\ frame' = [frame EXCEPT !.dst_path = dst_path]
          /\ pc' = "done"
     ELSE /\ frame' = [frame EXCEPT !.dst_path = dst_path,
                                    !.progress_dialog = [NoDialog EXCEPT !.exists = TRUE],
                                    !.calls = Append(@, CodecCall(frame))]
          /\ pc' = "ciso_codec"
  /\ UNCHANGED <<files, running, views, menu, m_strDefaultISO>>

\* The codec has been told to stop: a callback returned false.
Aborted(f) == \E i \in DOMAIN f.callbacks : ~f.callbacks[i].ret

\* The codec reports progress: one call of CompressCB with the address of
\* progress_dialog.  The position it reports never goes back, and it makes
\* no further call once one returned false.
Codec_Callback(v, click, show) ==
  /\ pc = "ciso_codec"
  /\ Len(frame.callbacks) < MaxCallbacks
  /\ ~Aborted(frame)
  /\ frame.callbacks # <<>> => v >= frame.callbacks[Len(frame.callbacks)].value
  /\ LET r == CompressCB(FALSE, frame.progress_dialog, v, click, show)
         clicked == click /\ frame.progress_dialog.shown /\ frame.progress_dialog.value # v
     IN  frame' = [frame EXCEPT !.progress_dialog = r.dialog,
                                !.callbacks = Append(@, [value |-> v, clicked |-> clicked,
                                                         ret |-> r.ret])]
  /\ UNCHANGED <<files, running, views, menu, pc, m_strDefaultISO>>

\* CompressISO, lines 269-278.  The success box is run with exec(); the
\* QErrorMessage is a temporary shown with showMessage(), which does not
\* block, and is destroyed when the statement ends.
ShowResult(f, good) ==
  IF good THEN Shows(f, "success", TRUE) ELSE Shows(f, "failure", FALSE)

\* The codec returns: failure if it was told to stop, else either result.
Codec_Returns(good) ==
  /\ pc = "ciso_codec"
  /\ Aborted(frame) => ~good
  /\ frame' = ShowResult([frame EXCEPT !.good = IF good THEN "true" ELSE "false"], good)
  /\ pc' = IF frame'.dialogs[Len(frame'.dialogs)].modal THEN "ciso_result" ELSE "done"
  /\ UNCHANGED <<files, running, views, menu, m_strDefaultISO>>

\* The user closes the modal result box.
CompressISO_ResultClosed ==
  /\ pc = "ciso_result"
  /\ pc' = "done"
  /\ UNCHANGED <<files, running, views, menu, frame, m_strDefaultISO>>

\* DeleteFile, lines 334-340: the confirmation is put up.
DeleteFile_Start ==
  /\ MenuOffers("DeleteFile")
  /\ frame' = Shows([NoFrame EXCEPT !.handler = "DeleteFile", !.game = SelectedGame],
                    "confirm", TRUE)
  /\ pc' = "del_confirm"
  /\ UNCHANGED <<files, running, views, menu, m_strDefaultISO>>

DeleteFile_ConfirmAnyAnswer(answer) ==
  /\ pc = "del_confirm"
  /\ frame' = [frame EXCEPT !.answer = answer]
  /\ pc' = "del_loop"
  /\ UNCHANGED <<files, running, views, menu, m_strDefaultISO>>

\* DeleteFile, line 342.
DeleteFile_Confirm(answer) ==
  /\ pc = "del_confirm"
  /\ frame' = [frame EXCEPT !.answer = answer]
  /\ pc' = IF answer = "Yes" THEN "del_loop" ELSE "done"
  /\ UNCHANGED <<files, running, views, menu, m_strDefaultISO>>

\* GameListModel::RemoveGame(path): the row of that path leaves the catalog
\* (rowsRemoved follows); a path not in the catalog changes nothing.
RemoveGame(path) ==
  IF path \in Range(m_model) THEN RemoveRow(path) ELSE UNCHANGED views

RemoveFirstRow(path) ==
  IF Len(m_model) > 0 THEN RemoveRow(m_model[1]) ELSE UNCHANGED views

\* DeleteFile, line 352: the catalog drops the deleted game.
DropDeleted(game) == RemoveGame(game)

\* DeleteFile, lines 346-363: one iteration of the loop up to its dialog.
DeleteFile_Attempt(deleted) ==
  /\ pc = "del_loop"
  /\ frame.attempts < MaxAttempts
  /\ LET f == [frame EXCEPT !.attempts = @ + 1,
                            !.good = IF deleted THEN "true" ELSE "false",
                            !.calls = Append(@, [fn |-> "File::Delete", src |-> frame.game,
                                                 sub_type |-> 0, block_size |-> 0])]
     IN  IF deleted
         THEN /\ DropDeleted(frame.game)
              /\ m_prefer_table' = m_prefer_table
              /\ frame' = f
              /\ pc' = "done"
         ELSE /\ UNCHANGED views
              /\ frame' = Shows(f, "delete_error", TRUE)
              /\ pc' = "del_error"
  /\ UNCHANGED <<files, running, menu, m_strDefaultISO>>

DeleteFile_ErrorAbortRetries(answer) ==
  /\ pc = "del_error"
  /\ frame.attempts < MaxAttempts
  /\ frame' = [frame EXCEPT !.answer = answer,
                            !.retries = IF answer = "Retry" THEN @ + 1 ELSE @]
  /\ pc' = "del_loop"
  /\ UNCHANGED <<files, running, views, menu, m_strDefaultISO>>

\* DeleteFile, lines 364-365: Retry loops, Abort breaks.
DeleteFile_Error(answer) ==
  /\ pc = "del_error"
  /\ answer = "Retry" => frame.attempts < MaxAttempts
  /\ frame' = [frame EXCEPT !.answer = answer,
                            !.retries = IF answer = "Retry" THEN @ + 1 ELSE @]
  /\ pc' = IF answer = "Retry" THEN "del_loop" ELSE "done"
  /\ UNCHANGED <<files, running, views, menu, m_strDefaultISO>>

\* GameFile(game).Install(): only a WAD can be installed; on success its
\* title is installed.
Install(game, success) ==
  /\ success => (game # NoGame /\ platformOf[game] = "WII_WAD")
  /\ installed' = IF success THEN installed \cup {game} ELSE installed

\* GameFile(game).Uninstall(): on success the title is no longer installed.
Uninstall(game, success) ==
  /\ success => (game # NoGame /\ platformOf[game] = "WII_WAD")
  /\ installed' = IF success THEN installed \ {game} ELSE installed

ReportResultAlwaysSuccess(f, success) ==
  Shows([f EXCEPT !.good = IF success THEN "true" ELSE "false"], "success", TRUE)

\* result_dialog of InstallWAD, UninstallWAD and ExportWiiSave (lines
\* 204-207, 287-290, 309-312): one QMessageBox, Information or Critical by
\* the call's result, run with exec().
ReportResult(f, success) ==
  Shows([f EXCEPT !.good = IF success THEN "true" ELSE "false"],
        IF success THEN "success" ELSE "failure", TRUE)

ExternalCall(fn, game) == [fn |-> fn, src |-> game, sub_type |-> 0, block_size |-> 0]

\* GameList::InstallWAD, up to result_dialog.exec().
InstallWAD ==
  /\ MenuOffers("InstallWAD")
  /\ \E success \in BOOLEAN :
       /\ Install(SelectedGame, success)
       /\ frame' = ReportResult([NoFrame EXCEPT !.handler = "InstallWAD",
                                                !.game = SelectedGame,
                                                !.calls = <<ExternalCall("Install", SelectedGame)>>],
                                success)
  /\ pc' = "result"
  /\ UNCHANGED <<platformOf, blobOf, running, views, menu, m_strDefaultISO>>

\* GameList::UninstallWAD, lines 295-302: the warning is put up.
UninstallWAD_Start ==
  /\ MenuOffers("UninstallWAD")
  /\ frame' = Shows([NoFrame EXCEPT !.handler = "UninstallWAD"], "uninstall_warning", TRUE)
  /\ pc' = "uninstall_warning"
  /\ UNCHANGED <<files, running, views, menu, m_strDefaultISO>>

\* GameList::UninstallWAD, lines 302-312: No returns; otherwise the call and
\* result_dialog.exec().
UninstallWAD_Answer(answer) ==
  /\ pc = "uninstall_warning"
  /\ IF answer = "No"
     THEN /\ frame' = [frame EXCEPT !.answer = answer]
          /\ pc' = "done"
          /\ UNCHANGED installed
     ELSE /\ \E success \in BOOLEAN :
               /\ Uninstall(SelectedGame, success)
               /\ frame' = ReportResult([frame EXCEPT !.answer = answer, !.game = SelectedGame,
                                                      !.calls = <<ExternalCall("Uninstall", SelectedGame)>>],
                                        success)
          /\ pc' = "result"
  /\ UNCHANGED <<platformOf, blobOf, running, views, menu, m_strDefaultISO>>

\* GameList::ExportWiiSave, up to result_dialog.exec().
ExportWiiSave ==
  /\ MenuOffers("ExportWiiSave")
  /\ \E success \in BOOLEAN :
       /\ success => SelectedGame # NoGame
       /\ frame' = ReportResult([NoFrame EXCEPT !.handler = "ExportWiiSave",
                                                !.game = SelectedGame,
                                                !.calls = <<ExternalCall("ExportWiiSave", SelectedGame)>>],
                                success)
  /\ pc' = "result"
  /\ UNCHANGED <<files, running, views, menu, m_strDefaultISO>>

\* result_dialog.exec() returns: the user closed the result box.
Result_Closed ==
  /\ pc = "result"
  /\ pc' = "done"
  /\ UNCHANGED <<files, running, views, menu, frame, m_strDefaultISO>>

SetDefaultISOWithDialog ==
  /\ MenuOffers("SetDefaultISO")
  /\ m_strDefaultISO' = SelectedGame
  /\ frame' = Shows([NoFrame EXCEPT !.handler = "SetDefaultISO", !.game = SelectedGame],
                    "success", TRUE)
  /\ pc' = "done"
  /\ UNCHANGED <<files, running, views, menu>>

\* GameList::SetDefaultISO.
SetDefaultISO ==
  /\ MenuOffers("SetDefaultISO")
  /\ m_strDefaultISO' = SelectedGame
  /\ frame' = [NoFrame EXCEPT !.handler = "SetDefaultISO", !.game = SelectedGame]
  /\ pc' = "done"
  /\ UNCHANGED <<files, running, views, menu>>

\* The handlers that hand something to the desktop or open a window and
\* observe no result.
FireAndForgetSlots ==
  {"OpenProperties", "OpenWiki", "OpenContainingFolder", "OpenSaveFolder"}

\* GameList::OpenProperties, OpenWiki, OpenContainingFolder, OpenSaveFolder.
FireAndForget(slot) ==
  /\ slot \in FireAndForgetSlots
  /\ MenuOffers(slot)
  /\ frame' = [NoFrame EXCEPT !.handler = slot, !.game = SelectedGame,
                              !.calls = <<ExternalCall(slot, SelectedGame)>>]
  /\ pc' = "done"
  /\ UNCHANGED <<files, running, views, menu, m_strDefaultISO>>

\* The handler returns to the event loop; its locals are gone.
HandlerReturns ==
  /\ pc = "done"
  /\ pc' = "idle"
  /\ frame' = NoFrame
  /\ UNCHANGED <<files, running, views, menu, m_strDefaultISO>>

\* ------------------------------------------------------------------ Next
Next ==
  \/ \E p \in Paths : RowsInserted(p)
  \/ \E p \in Paths : RowsRemoved(p)
  \/ \E row \in 0..NumPaths : SelectRow(row)
  \/ \E table \in BOOLEAN : SetPreferredView(table)
  \/ EmulationStarted
  \/ EmulationStopped
  \/ ShowContextMenu
  \/ MenuDismissed
  \/ CompressISO_Start
  \/ \E answer \in {"Yes", "No"} : CompressISO_Warning(answer)
  \/ \E dst_path \in {"empty", "chosen"} : CompressISO_Destination(dst_path)
  \/ \E v \in Percents, click \in BOOLEAN, show \in BOOLEAN : Codec_Callback(v, click, show)
  \/ \E good \in BOOLEAN : Codec_Returns(good)
  \/ CompressISO_ResultClosed
  \/ DeleteFile_Start
  \/ \E answer \in {"Yes", "Cancel"} : DeleteFile_Confirm(answer)
  \/ \E deleted \in BOOLEAN : DeleteFile_Attempt(deleted)
  \/ \E answer \in {"Retry", "Abort"} : DeleteFile_Error(answer)
  \/ InstallWAD
  \/ UninstallWAD_Start
  \/ \E answer \in {"Yes", "No"} : UninstallWAD_Answer(answer)
  \/ ExportWiiSave
  \/ Result_Closed
  \/ \E slot \in FireAndForgetSlots : FireAndForget(slot)
  \/ HandlerReturns

Spec == Init /\ [][Next]_vars

\* m_strDefaultISO is written by SetDefaultISO and read by nothing in this
\* file, and a handler runs to its end before the next one starts: the
\* settings write is followed on its own, among the same events and menus.
NextDefaultISO ==
  \/ \E p \in Paths : RowsInserted(p)
  \/ \E p \in Paths : RowsRemoved(p)
  \/ \E row \in 0..NumPaths : SelectRow(row)
  \/ \E table \in BOOLEAN : SetPreferredView(table)
  \/ EmulationStarted
  \/ EmulationStopped
  \/ ShowContextMenu
  \/ MenuDismissed
  \/ SetDefaultISO
  \/ HandlerReturns

SpecDefaultISO == Init /\ [][NextDefaultISO]_vars

\* ================================================================ claims
MenuPlatform == platformOf[menu.game]
MenuBlob == blobOf[menu.game]
MenuBuilt == menu.game # NoGame

\* C1: in every state the active view is Empty iff the catalog has no row,
\* and with at least one row it is Table iff the stored preference is Table
\* and the icon list otherwise.
C1_ActiveView ==
  /\ current = "empty" <=> rowCount(m_model) = 0
  /\ rowCount(m_model) > 0 =>
       /\ current = "table" <=> m_prefer_table
       /\ current = "list" <=> ~m_prefer_table

\* C1 witness: a catalog of several rows shown as the icon list.
C1_Witness == rowCount(m_model) > 1 /\ current = "list" /\ ~m_prefer_table

\* C2 as stated: right after any switch of the active view GetSelectedGame
\* returns the empty reference.
C2_Original == [][current' # current => SelectedGame' = NoGame]_vars

\* What the view that becomes active had selected before the switch, if that
\* game is still in the catalog after it.
OwnSelection ==
  LET view == IF current' = "table" THEN "table" ELSE "list"
      own  == ItemAt(view, m_model, IF view = "table" THEN tableSel ELSE listSel)
  IN  IF own \in Range(m_model') THEN own ELSE NoGame

\* C2 amended: a switch of the active view carries no selection over; right
\* after it GetSelectedGame returns what the newly active view itself still
\* has selected from when it was last active, and the empty reference when
\* that view has nothing selected.
C2_SwitchShowsOwnSelection == [][current' # current => SelectedGame' = OwnSelection]_vars

\* C2 witness: both views hold a selection, of different games, and the icon
\* list is the active one.
C2_Witness ==
  /\ current = "list" /\ listSel # 0 /\ tableSel # 0
  /\ ItemAt("list", m_model, listSel) # ItemAt("table", m_model, tableSel)

\* C3 as stated: the menu of a disc image holds exactly one of Decompress and
\* Compress, Decompress iff the image is compressed.
C3_Original ==
  (MenuBuilt /\ IsDiscImage(MenuPlatform)) =>
    /\ HasEntry(menu, "Decompress ISO") <=> IsCompressed(MenuBlob)
    /\ HasEntry(menu, "Compress ISO") <=> ~IsCompressed(MenuBlob)

\* C3 amended: the menu of a disc image holds Decompress iff the blob type is
\* GCZ and Compress iff it is PLAIN, never both, and neither for any other
\* blob type.
C3_CompressEntries ==
  (MenuBuilt /\ IsDiscImage(MenuPlatform)) =>
    /\ HasEntry(menu, "Decompress ISO") <=> MenuBlob = "GCZ"
    /\ HasEntry(menu, "Compress ISO") <=> MenuBlob = "PLAIN"
    /\ ~(HasEntry(menu, "Decompress ISO") /\ HasEntry(menu, "Compress ISO"))

\* C3 witness: the menu of a compressed disc image, offering Decompress.
C3_Witness ==
  /\ pc = "menu" /\ IsDiscImage(MenuPlatform) /\ MenuBlob = "GCZ"
  /\ HasEntry(menu, "Decompress ISO")

\* C4 as stated: while the menu of a WAD exists its Uninstall entry is
\* enabled iff emulation is not running and the title is installed.
C4_Original ==
  HasEntry(menu, "Uninstall from the NAND") =>
    (EntryEnabled(menu, "Uninstall from the NAND") <=> (~running /\ IsInstalled(menu.game)))

\* Steps of a confirmed DeleteFile on a game.
DeleteFileStep ==
  /\ frame.handler = "DeleteFile" /\ frame.game # NoGame
  /\ pc \in {"del_loop", "del_error"}

HasDialog(f, kind) == \E i \in DOMAIN f.dialogs : f.dialogs[i].kind = kind

Cancelled(f) == \E i \in DOMAIN f.callbacks : f.callbacks[i].clicked

\* C6 as stated: once the user has cancelled the progress dialog the callback
\* that sees the click returns false, the codec call returns failure and no
\* success dialog is shown.
C6_Original ==
  (frame.handler = "CompressISO") =>
    /\ \A i \in DOMAIN frame.callbacks :
         frame.callbacks[i].clicked => ~frame.callbacks[i].ret
    /\ (Cancelled(frame) /\ frame.good # "unset") =>
         (frame.good = "false" /\ ~HasDialog(frame, "success"))

ModalResults(f) ==
  {i \in DOMAIN f.dialogs : f.dialogs[i].kind \in {"success", "failure"} /\ f.dialogs[i].modal}

\* C7 as stated: once the codec call has returned, exactly one modal result
\* dialog has been shown, the success dialog iff the call returned true.
C7_Original ==
  (frame.handler = "CompressISO" /\ frame.good # "unset") =>
    /\ Cardinality(ModalResults(frame)) = 1
    /\ \A i \in ModalResults(frame) :
         frame.dialogs[i].kind = (IF frame.good = "true" THEN "success" ELSE "failure")

HasSaveEntries(m) ==
  HasEntry(m, "Open Wii save folder") /\ HasEntry(m, "Export Wii save (Experimental)")

NoSaveEntries(m) ==
  ~HasEntry(m, "Open Wii save folder") /\ ~HasEntry(m, "Export Wii save (Experimental)")

\* C8 as stated: the menu holds the two save entries iff the game is a disc
\* image of either platform or a WAD.
C8_Original ==
  MenuBuilt =>
    IF IsDiscImage(MenuPlatform) \/ MenuPlatform = "WII_WAD"
    THEN HasSaveEntries(menu) ELSE NoSaveEntries(menu)

\* C8 amended: the menu holds the two save entries iff the game is a Wii disc
\* or a WAD; a GameCube disc has neither.
C8_SaveEntries ==
  MenuBuilt =>
    IF MenuPlatform = "WII_DISC" \/ MenuPlatform = "WII_WAD"
    THEN HasSaveEntries(menu) ELSE NoSaveEntries(menu)

\* C8 witness: the menu of a GameCube disc, without the save entries.
C8_Witness == pc = "menu" /\ MenuPlatform = "GAMECUBE_DISC" /\ NoSaveEntries(menu)

\* C9: while the menu of a WAD exists its Install entry is enabled iff
\* emulation is not running.
C9_InstallEnabled ==
  HasEntry(menu, "Install to the NAND") =>
    (EntryEnabled(menu, "Install to the NAND") <=> ~running)

\* C9 witness: the menu of a WAD with emulation running, Install disabled.
C9_Witness ==
  /\ HasEntry(menu, "Install to the NAND") /\ running
  /\ ~EntryEnabled(menu, "Install to the NAND")

\* C10: CompressISO asks the lossy-operation question exactly when the image
\* is a Wii disc that is not compressed; after the answer No, or an empty
\* destination, the handler has ended with no codec call, no progress dialog
\* and no result dialog.
C10_QuestionAndSilentAbort ==
  (frame.handler = "CompressISO") =>
    /\ HasDialog(frame, "wii_warning") <=>
         (~IsCompressed(frame.blob) /\ frame.platform = "WII_DISC")
    /\ (frame.answer = "No" \/ frame.dst_path = "empty") =>
         /\ pc = "done"
         /\ frame.calls = <<>>
         /\ ~frame.progress_dialog.exists
         /\ ~HasDialog(frame, "success") /\ ~HasDialog(frame, "failure")
         /\ frame.good = "unset"

\* C10 witness: the question was asked and answered No.
C10_Witness ==
  /\ pc = "done" /\ frame.handler = "CompressISO"
  /\ HasDialog(frame, "wii_warning") /\ frame.answer = "No"

\* C11: InstallWAD and ExportWiiSave ask nothing, make one external call and
\* then show one modal result box, Information iff the call returned true;
\* UninstallWAD asks first, and after No has made no call and shown no
\* result box, after Yes has made one call and shown one modal result box
\* of the call's kind.
ResultOf(f) == Dialog(IF f.good = "true" THEN "success" ELSE "failure", TRUE)

C11_OneCallOneResult ==
  /\ frame.handler \in {"InstallWAD", "ExportWiiSave"} =>
       /\ frame.good \in {"true", "false"}
       /\ Len(frame.calls) = 1
       /\ frame.calls[1].fn = (IF frame.handler = "InstallWAD" THEN "Install" ELSE "ExportWiiSave")
       /\ frame.dialogs = <<ResultOf(frame)>>
       /\ pc \in {"result", "done"}
  /\ frame.handler = "UninstallWAD" =>
       /\ frame.answer \in {"none", "No"} =>
            /\ frame.calls = <<>>
            /\ frame.dialogs = <<Dialog("uninstall_warning", TRUE)>>
            /\ frame.good = "unset"
            /\ pc = (IF frame.answer = "No" THEN "done" ELSE "uninstall_warning")
       /\ frame.answer \notin {"none", "No"} =>
            /\ frame.answer = "Yes"
            /\ frame.good \in {"true", "false"}
            /\ Len(frame.calls) = 1
            /\ frame.calls[1].fn = "Uninstall"
            /\ frame.dialogs = <<Dialog("uninstall_warning", TRUE), ResultOf(frame)>>
            /\ pc \in {"result", "done"}

\* C11 witness: an uninstall that was confirmed and failed, its result box
\* closed.
C11_Witness ==
  /\ pc = "done" /\ frame.handler = "UninstallWAD"
  /\ frame.answer = "Yes" /\ frame.good = "false"
  /\ frame.game # NoGame

\* C12: until the confirmation of DeleteFile has been answered, and after it
\* was answered Cancel, no delete has been attempted, no error dialog has
\* been shown and the catalog and the files are as they were; Cancel ends
\* the handler.
DeleteUnconfirmed ==
  frame.handler = "DeleteFile" /\ (pc = "del_confirm" \/ frame.answer = "Cancel")

C12_NothingWithoutYes ==
  /\ [](DeleteUnconfirmed =>
          /\ frame.attempts = 0
          /\ frame.calls = <<>>
          /\ ~HasDialog(frame, "delete_error")
          /\ frame.answer = "Cancel" => pc = "done")
  /\ [][DeleteUnconfirmed' => (m_model' = m_model /\ files' = files)]_vars

\* C12 witness: DeleteFile of a game of the catalog ended by Cancel.
C12_Witness ==
  /\ pc = "done" /\ frame.handler = "DeleteFile" /\ frame.answer = "Cancel"
  /\ frame.game \in Range(m_model)

\* C13: in a confirmed DeleteFile every attempt deletes the handler's path;
\* the retry/abort dialogs shown are as many as the failed attempts; the
\* loop is entered with as many attempts as Retry answers and left, or
\* waiting at its dialog, with one more; a successful attempt and Abort end
\* the handler.
ErrorDialogs(f) == {i \in DOMAIN f.dialogs : f.dialogs[i].kind = "delete_error"}

C13_RetryLoop ==
  (frame.handler = "DeleteFile" /\ ~DeleteUnconfirmed) =>
    /\ Len(frame.calls) = frame.attempts
    /\ \A i \in DOMAIN frame.calls :
         frame.calls[i].fn = "File::Delete" /\ frame.calls[i].src = frame.game
    /\ Cardinality(ErrorDialogs(frame)) =
         frame.attempts - (IF frame.good = "true" THEN 1 ELSE 0)
    /\ pc \in {"del_loop", "del_error", "done"}
    /\ pc = "del_loop" => frame.attempts = frame.retries /\ frame.good # "true"
    /\ pc = "del_error" => frame.attempts = frame.retries + 1 /\ frame.good = "false"
    /\ pc = "done" => frame.attempts = frame.retries + 1
    /\ frame.good = "true" => pc = "done"
    /\ frame.answer = "Abort" => pc = "done" /\ frame.good = "false"

\* C13 witness: a first attempt failed, Retry, a second attempt failed, Abort.
C13_Witness ==
  /\ pc = "done" /\ frame.handler = "DeleteFile" /\ frame.answer = "Abort"
  /\ frame.retries = 1 /\ frame.attempts = 2

\* C14: CompressISO has called no codec before a destination is chosen, and
\* from then on exactly one: DecompressBlobToFile iff the image it read is
\* GCZ, CompressFileToBlob otherwise and then with the flag 1 iff the
\* platform is WII_DISC and with the block size 16384; the source is the
\* path the handler resolved at its start, whose file is the one it read.
C14_OneCodecCall ==
  frame.handler = "CompressISO" =>
    /\ frame.game # NoGame =>
         frame.platform = platformOf[frame.game] /\ frame.blob = blobOf[frame.game]
    /\ frame.dst_path # "chosen" => frame.calls = <<>>
    /\ frame.dst_path = "chosen" =>
         /\ Len(frame.calls) = 1
         /\ frame.calls[1].src = frame.game
         /\ frame.calls[1].fn \in {"DecompressBlobToFile", "CompressFileToBlob"}
         /\ frame.calls[1].fn = "DecompressBlobToFile" <=> frame.blob = "GCZ"
         /\ frame.calls[1].fn = "CompressFileToBlob" =>
              /\ frame.calls[1].sub_type = 1 <=> frame.platform = "WII_DISC"
              /\ frame.calls[1].sub_type \in {0, 1}
              /\ frame.calls[1].block_size = BlockSize

\* C14 witness: the codec has returned from compressing a Wii disc of the
\* catalog.
C14_Witness ==
  /\ frame.handler = "CompressISO" /\ pc = "done" /\ frame.good # "unset"
  /\ frame.game # NoGame /\ frame.platform = "WII_DISC" /\ frame.blob = "PLAIN"
  /\ frame.calls[1].sub_type = 1

\* C15: GetSelectedGame is empty when the active view has no selected row,
\* as it always is with the empty placeholder active; otherwise it is the
\* path of a row of the catalog, the one the active view shows at its
\* selected row.
ActiveSelection ==
  IF current = "table" THEN tableSel ELSE IF current = "list" THEN listSel ELSE 0

C15_ActiveViewOnly ==
  LET game == SelectedGame
  IN  /\ current = "empty" => game = NoGame
      /\ IF ActiveSelection = 0
         THEN game = NoGame
         ELSE /\ ActiveSelection \in 1..rowCount(m_model)
              /\ game \in Range(m_model)
              /\ game = ItemAt(current, m_model, ActiveSelection)

\* C15 witness: both views hold a selection, of different games, and the
\* table is active.
C15_Witness ==
  /\ current = "table" /\ tableSel # 0 /\ listSel # 0
  /\ ItemAt("table", m_model, tableSel) # ItemAt("list", m_model, listSel)
  /\ SelectedGame = ItemAt("table", m_model, tableSel)

\* C16: every menu put up starts with Properties, Wiki, separator and ends
\* with Open Containing Folder, Remove File; what is between them are the
\* entries of the disc group, then of the WAD group, then of the save group,
\* each group closed by its separator.
DiscLabels == {"Default ISO", "Decompress ISO", "Compress ISO"}
WadLabels == {"Install to the NAND", "Uninstall from the NAND"}
SaveLabels == {"Open Wii save folder", "Export Wii save (Experimental)"}

\* The place of a label in the order of the groups.
GroupOf(label) ==
  IF label \in {"Properties", "Wiki"} THEN 0
  ELSE IF label \in DiscLabels THEN 1
  ELSE IF label \in WadLabels THEN 2
  ELSE IF label \in SaveLabels THEN 3
  ELSE IF label \in {"Open Containing Folder", "Remove File"} THEN 4
  ELSE 5

\* The entry after e[i], past the separator that may stand between them.
Following(e, i) == IF e[i + 1].label = "separator" THEN e[i + 2] ELSE e[i + 1]

C16_MenuFrame ==
  pc = "menu" =>
    LET e == menu.entries
        n == Len(e)
    IN  /\ n >= 5
        /\ e[1].label = "Properties" /\ e[2].label = "Wiki" /\ e[3].label = "separator"
        /\ e[n - 1].label = "Open Containing Folder" /\ e[n].label = "Remove File"
        /\ \A i \in 4..(n - 2) : e[i].label = "separator" \/ GroupOf(e[i].label) \in 1..3
        /\ \A i \in 1..(n - 2) :
             e[i].label # "separator" =>
               /\ GroupOf(e[i].label) <= GroupOf(Following(e, i).label)
               /\ GroupOf(e[i].label) < GroupOf(Following(e, i).label) <=>
                    e[i + 1].label = "separator"
        /\ IsDiscImage(MenuPlatform) <=> "Default ISO" \in Labels(menu)
        /\ MenuPlatform = "WII_WAD" <=> "Install to the NAND" \in Labels(menu)

\* C16 witness: the menu of a Wii disc is up, with its disc and save groups.
C16_Witness ==
  /\ pc = "menu" /\ MenuPlatform = "WII_DISC"
  /\ "Default ISO" \in Labels(menu) /\ "Open Wii save folder" \in Labels(menu)

\* C17: the step of SetDefaultISO sets m_strDefaultISO to the selected game,
\* shows no dialog, makes no call and leaves the catalog, the preference,
\* the active view, both selections, the files and the menu as they were;
\* no other step changes m_strDefaultISO.
C17_OnlyDefaultISO ==
  [][/\ (pc = "menu" /\ frame'.handler = "SetDefaultISO") =>
          /\ m_strDefaultISO' = SelectedGame
          /\ frame'.dialogs = <<>> /\ frame'.calls = <<>>
          /\ pc' = "done"
          /\ UNCHANGED <<m_model, m_prefer_table, current, tableSel, listSel>>
          /\ UNCHANGED <<files, running, menu>>
     /\ m_strDefaultISO' # m_strDefaultISO =>
          (pc = "menu" /\ frame'.handler = "SetDefaultISO")]_vars

\* C17 witness: the default disc has been set to a selected game of a
\* catalog of several rows.
C17_Witness ==
  /\ pc = "done" /\ frame.handler = "SetDefaultISO"
  /\ m_strDefaultISO # NoGame /\ m_strDefaultISO = SelectedGame
  /\ rowCount(m_model) > 1

\* C18 as stated: the game a handler has resolved is not empty and is the
\* game its menu was built for.
HasResolved(f) ==
  f.handler # "none" /\ ~(f.handler = "UninstallWAD" /\ f.answer \in {"none", "No"})

C18_Original ==
  HasResolved(frame) => (frame.game # NoGame /\ frame.game = menu.game)

=============================================================================
